---- MODULE Spec2Model ----
(***************************************************************************)
(* Docs2static: mirror of a remote document tree into a static file tree.  *)
(* Model of main.py (process_document and its helpers) and of the parts of *)
(* zensical_backend.py it calls.                                           *)
(*                                                                         *)
(* Strings are sequences of one-character strings.  A Markdown body is a   *)
(* sequence of lines, an HTML body a sequence of paragraphs / tags.        *)
(***************************************************************************)
EXTENDS Integers, Sequences, FiniteSets, TLC

(***************************************************************************)
(* Characters and strings                                                  *)
(***************************************************************************)
UpperChars == <<"A","B","C","D","E","F","G","H","I","J","K","L","M",
                "N","O","P","Q","R","S","T","U","V","W","X","Y","Z">>
LowerChars == <<"a","b","c","d","e","f","g","h","i","j","k","l","m",
                "n","o","p","q","r","s","t","u","v","w","x","y","z">>
DigitChars == {"0","1","2","3","4","5","6","7","8","9"}
WhiteChars == {" "}

RangeOf(s) == {s[i] : i \in 1..Len(s)}

\* str.lower() on one character
LowerChar(c) ==
  IF \E i \in 1..Len(UpperChars) : UpperChars[i] = c
  THEN LowerChars[CHOOSE i \in 1..Len(UpperChars) : UpperChars[i] = c]
  ELSE IF c = "É" THEN "é" ELSE c

\* str.lower()
Lower(s) == [i \in 1..Len(s) |-> LowerChar(s[i])]

\* str.lstrip()
RECURSIVE LStrip(_)
LStrip(s) == IF s # <<>> /\ Head(s) \in WhiteChars THEN LStrip(Tail(s)) ELSE s

\* str.rstrip()
RECURSIVE RStrip(_)
RStrip(s) == IF s # <<>> /\ s[Len(s)] \in WhiteChars
             THEN RStrip(SubSeq(s, 1, Len(s) - 1)) ELSE s

\* str.strip()
Strip(s) == RStrip(LStrip(s))

(***************************************************************************)
(* zensical_backend.slugify                                                *)
(***************************************************************************)
\* unicodedata.normalize('NFKD', c).encode('ascii', 'ignore'): an accented
\* letter keeps its base letter, a character with no ASCII part disappears
AsciiFold(c) ==
  CASE c = "é" -> <<"e">>
    [] c = "É" -> <<"E">>
    [] c = "ç" -> <<"c">>
    [] c = "日" -> <<>>
    [] OTHER -> <<c>>

RECURSIVE FoldAll(_)
FoldAll(s) == IF s = <<>> THEN <<>> ELSE AsciiFold(Head(s)) \o FoldAll(Tail(s))

\* \w on ASCII text
IsWordChar(c) == \/ c \in RangeOf(UpperChars) \/ c \in RangeOf(LowerChars)
                 \/ c \in DigitChars \/ c = "_"

\* re.sub(r'[^\w\s-]', '', text)
RECURSIVE KeepWord(_)
KeepWord(s) ==
  IF s = <<>> THEN <<>>
  ELSE IF IsWordChar(Head(s)) \/ Head(s) \in WhiteChars \/ Head(s) = "-"
       THEN <<Head(s)>> \o KeepWord(Tail(s))
       ELSE KeepWord(Tail(s))

\* re.sub(r'[-\s]+', '-', text)
RECURSIVE Hyphenate(_)
Hyphenate(s) ==
  IF s = <<>> THEN <<>>
  ELSE IF Head(s) \in WhiteChars \/ Head(s) = "-"
       THEN IF Len(s) > 1 /\ (s[2] \in WhiteChars \/ s[2] = "-")
            THEN Hyphenate(Tail(s))
            ELSE <<"-">> \o Hyphenate(Tail(s))
       ELSE <<Head(s)>> \o Hyphenate(Tail(s))

SansTitreSlug == <<"s","a","n","s","-","t","i","t","r","e">>

slugify(text) ==
  IF text = <<>> THEN SansTitreSlug
  ELSE Hyphenate(Lower(Strip(KeepWord(FoldAll(text)))))

(***************************************************************************)
(* Metadata maps: functions from key strings to value strings              *)
(***************************************************************************)
EmptyMap == [k \in {} |-> <<>>]

\* dict[key] = value
Put(m, k, v) == [x \in DOMAIN m \cup {k} |-> IF x = k THEN v ELSE m[x]]

\* dict.update(other)
Update(m, o) == [x \in DOMAIN m \cup DOMAIN o |-> IF x \in DOMAIN o THEN o[x] ELSE m[x]]

\* del dict[key] for every key of ks that is present
Without(m, ks) == [x \in DOMAIN m \ ks |-> m[x]]

\* the keys process_document and the backend know
K_path      == <<"p","a","t","h">>
K_title     == <<"t","i","t","l","e">>
K_order     == <<"o","r","d","e","r">>
K_logo_file == <<"l","o","g","o","_","f","i","l","e">>
K_edit_url  == <<"e","d","i","t","_","u","r","l">>
K_image     == <<"i","m","a","g","e">>
K_site_name == <<"s","i","t","e","_","n","a","m","e">>

(***************************************************************************)
(* Draft detection                                                         *)
(***************************************************************************)
K_draft     == <<"d","r","a","f","t">>
K_brouillon == <<"b","r","o","u","i","l","l","o","n">>
V_true  == <<"t","r","u","e">>
V_yes   == <<"y","e","s">>
V_oui   == <<"o","u","i">>
V_false == <<"f","a","l","s","e">>
V_non   == <<"n","o","n">>

DraftKeys   == {K_draft, K_brouillon}
TruthyTokens == {V_true, V_yes, V_oui}

\* a mutant of is_draft: the value is compared without trimming
is_draft_untrimmed(metadata) ==
  \E k \in DraftKeys : k \in DOMAIN metadata /\ Lower(metadata[k]) \in TruthyTokens

is_draft(metadata) ==
  \E k \in DraftKeys : k \in DOMAIN metadata /\ Lower(Strip(metadata[k])) \in TruthyTokens

(***************************************************************************)
(* Bodies.  A body is a sequence of tokens [t, k, v, u]:                   *)
(*   "delim"  the line / paragraph "---" followed by the text v            *)
(*   "kv"     the line / paragraph  k ":" v   (k has no colon)             *)
(*   "text"   the text v (no colon)                                        *)
(*   "blank"  an empty line (Markdown) or an empty paragraph <p></p> (HTML)*)
(*   "img"    an image reference ![..](u) / <img src="u"> to the URL u      *)
(* An HTML body is one line of markup, as the content API produces it.     *)
(* Inside a frontmatter block the tokens are "kv", "text", "blank" and     *)
(* "delim" ones, and the value v of a "kv" token is not blank.             *)
(***************************************************************************)
NoUrl == <<>>
Tok(t, k, v) == [t |-> t, k |-> k, v |-> v, u |-> NoUrl]
Delim        == Tok("delim", <<>>, <<>>)
Blank        == Tok("blank", <<>>, <<>>)
Img(u)       == [t |-> "img", k |-> <<>>, v |-> <<>>, u |-> u]

\* the text of a token that holds no colon, as the key pattern sees it
PlainText(l) == IF l.t = "delim" THEN <<"-","-","-">> \o l.v ELSE l.v

\* [first, last] of the span matched by r'^---\n(.*?)\n---' (Markdown):
\* the first line is exactly "---", the block closes at the first later
\* line that starts with "---" and is not the line right after the opening
MdClosers(content) ==
  {j \in 3..Len(content) : content[j].t = "delim"}
MdHasBlock(content) ==
  /\ Len(content) >= 1 /\ content[1] = Delim
  /\ MdClosers(content) # {}
MdClose(content) == CHOOSE j \in MdClosers(content) : \A x \in MdClosers(content) : j <= x

\* re.findall(r'^\s*([^:]+?)\s*:\s*(.+)$', raw_info, re.MULTILINE) folded into
\* the map: a key runs from the first non-blank text after the previous item
\* to the colon, across line ends ("\n"); pre is the text gathered so far
RECURSIVE MdItems(_, _, _)
MdItems(raw, pre, fm) ==
  IF raw = <<>> THEN fm
  ELSE LET l == Head(raw) IN
       IF l.t = "kv"
       THEN MdItems(Tail(raw), <<>>, Put(fm, Lower(Strip(pre \o l.k)), Strip(l.v)))
       ELSE IF l.t = "blank" /\ pre = <<>>
            THEN MdItems(Tail(raw), <<>>, fm)
            ELSE MdItems(Tail(raw), pre \o PlainText(l) \o <<"\n">>, fm)

\* leading empty lines removed by str.lstrip()
RECURSIVE DropBlank(_)
DropBlank(body) == IF body # <<>> /\ Head(body).t = "blank" THEN DropBlank(Tail(body)) ELSE body

\* content[match.end():].lstrip() : what follows "---" on the closing line,
\* then the following lines
MdRest(content, j) ==
  DropBlank((IF Strip(content[j].v) = <<>> THEN <<>>
             ELSE <<Tok("text", <<>>, LStrip(content[j].v))>>)
            \o SubSeq(content, j + 1, Len(content)))

extract_frontmatter_markdown(content) ==
  IF MdHasBlock(content)
  THEN LET j == MdClose(content) IN
       [fm |-> MdItems(SubSeq(content, 2, j - 1), <<>>, EmptyMap),
        body |-> MdRest(content, j)]
  ELSE [fm |-> EmptyMap, body |-> content]

\* re.sub(r'^(<p></p>)+', '', content)
RECURSIVE DropEmptyParagraphs(_)
DropEmptyParagraphs(content) ==
  IF content # <<>> /\ Head(content).t = "blank"
  THEN DropEmptyParagraphs(Tail(content)) ELSE content

\* r'^<p>---\s*</p>(.*?)<p>---\s*</p>' : both delimiters are paragraphs that
\* hold "---" and white space only; the block may be empty
HtmlIsDelim(l) == l.t = "delim" /\ Strip(l.v) = <<>>
HtmlClosers(content) == {j \in 2..Len(content) : HtmlIsDelim(content[j])}
HtmlHasBlock(content) ==
  /\ Len(content) >= 1 /\ HtmlIsDelim(content[1])
  /\ HtmlClosers(content) # {}
HtmlClose(content) == CHOOSE j \in HtmlClosers(content) : \A x \in HtmlClosers(content) : j <= x

\* "</p><p>" between two paragraphs, as one character
ParBreak == "¶"

\* re.findall(r'<p>(.+?)\s*:\s*(.+?)</p>', raw_info): the key starts after
\* the first "<p>" that follows the previous item and runs to the colon
RECURSIVE HtmlItems(_, _, _)
HtmlItems(raw, pre, fm) ==
  IF raw = <<>> THEN fm
  ELSE LET l == Head(raw) IN
       IF l.t = "kv"
       THEN HtmlItems(Tail(raw), <<>>, Put(fm, Lower(Strip(pre \o l.k)), Strip(l.v)))
       ELSE HtmlItems(Tail(raw), pre \o PlainText(l) \o <<ParBreak>>, fm)

extract_frontmatter(content0) ==
  LET content == DropEmptyParagraphs(content0) IN
  IF HtmlHasBlock(content)
  THEN LET j == HtmlClose(content) IN
       [fm |-> HtmlItems(SubSeq(content, 2, j - 1), <<>>, EmptyMap),
        body |-> SubSeq(content, j + 1, Len(content))]
  ELSE [fm |-> EmptyMap, body |-> content]

(***************************************************************************)
(* URLs of assets (strings)                                                *)
(***************************************************************************)
IsPrefix(p, s) == Len(p) <= Len(s) /\ SubSeq(s, 1, Len(p)) = p

HttpScheme  == <<"h","t","t","p",":","/","/">>
HttpsScheme == <<"h","t","t","p","s",":","/","/">>

\* the pattern https?:// of the image patterns
IsRemote(u) == IsPrefix(HttpScheme, u) \/ IsPrefix(HttpsScheme, u)

\* str.startswith("http")
StartsWithHttp(u) == IsPrefix(<<"h","t","t","p">>, u)

\* s from its first character c on, <<>> when there is none
RECURSIVE From(_, _)
From(s, c) == IF s = <<>> \/ Head(s) \in c THEN s ELSE From(Tail(s), c)

\* s up to its first character of c, excluded
RECURSIVE Upto(_, _)
Upto(s, c) == IF s = <<>> \/ Head(s) \in c THEN <<>> ELSE <<Head(s)>> \o Upto(Tail(s), c)

\* urllib.parse.urlparse(url) on scheme://netloc/path?query#fragment, and on
\* a text with no scheme, which is all path up to "?" or "#"
UrlScheme(u) ==
  IF IsPrefix(HttpsScheme, u) THEN <<"h","t","t","p","s">>
  ELSE IF IsPrefix(HttpScheme, u) THEN <<"h","t","t","p">> ELSE <<>>
UrlRest(u) ==
  IF UrlScheme(u) = <<>> THEN u ELSE SubSeq(u, Len(UrlScheme(u)) + 4, Len(u))
UrlNetloc(u) ==
  IF UrlScheme(u) = <<>> THEN <<>> ELSE Upto(UrlRest(u), {"/", "?", "#"})
UrlPath(u) ==
  IF UrlScheme(u) = <<>> THEN Upto(u, {"?", "#"})
  ELSE Upto(From(UrlRest(u), {"/", "?", "#"}), {"?", "#"})

\* os.path.basename
RECURSIVE Basename(_)
Basename(path) ==
  IF \E i \in 1..Len(path) : path[i] = "/"
  THEN Basename(Tail(From(path, {"/"})))
  ELSE path

\* os.path.basename(urllib.parse.urlparse(url).path)
AssetFilename(u) == Basename(UrlPath(u))

(***************************************************************************)
(* parse_docs_url                                                          *)
(***************************************************************************)
DocsMark == <<"/","d","o","c","s","/">>

\* where re.search(r'/docs/([^/]+)', path) can match: "/docs/" followed by
\* a character that is not a slash
DocsHits(path) ==
  {i \in 1..Len(path) : /\ i + Len(DocsMark) <= Len(path)
                        /\ SubSeq(path, i, i + Len(DocsMark) - 1) = DocsMark
                        /\ path[i + Len(DocsMark)] # "/"}

HexChars == {"a","b","c","d","e","f","0","1","2","3","4","5","6","7","8","9","-"}

\* re.match(r'^[a-f0-9-]{36}$', url): "$" also matches before a last "\n"
MatchesBareId(url) ==
  /\ \/ Len(url) = 36
     \/ Len(url) = 37 /\ url[37] = "\n"
  /\ \A i \in 1..36 : url[i] \in HexChars

DefaultBase == <<"h","t","t","p","s",":","/","/","d","o","c","s",".","s","u","i","t","e",".","a","n","c","t",".","g","o","u","v",".","f","r">>

\* the pair returned, or ok = FALSE when ValueError is raised
parse_docs_url(url) ==
  LET path == UrlPath(url)
      hits == DocsHits(path)
  IN IF hits # {}
     THEN LET i == CHOOSE x \in hits : \A y \in hits : x <= y
          IN [ok |-> TRUE,
              base |-> UrlScheme(url) \o <<":","/","/">> \o UrlNetloc(url),
              id |-> Upto(SubSeq(path, i + Len(DocsMark), Len(path)), {"/"})]
     ELSE IF MatchesBareId(url)
          THEN [ok |-> TRUE, base |-> DefaultBase, id |-> url]
          ELSE [ok |-> FALSE, base |-> <<>>, id |-> <<>>]

\* decimal digits of a natural number, str(n)
DigitSeq == <<"0","1","2","3","4","5","6","7","8","9">>
RECURSIVE Str(_)
Str(n) == IF n < 10 THEN <<DigitSeq[n + 1]>> ELSE Str(n \div 10) \o <<DigitSeq[(n % 10) + 1]>>

(***************************************************************************)
(* download_and_replace_images                                             *)
(***************************************************************************)
\* the references the image pattern matches and that yield a file name
Localizable(body) ==
  {i \in 1..Len(body) : body[i].t = "img" /\ IsRemote(body[i].u)
                        /\ AssetFilename(body[i].u) # <<>>}

\* a mutant of RewriteImages: every reference with a file name is rewritten,
\* downloaded or not
RewriteImages_always(body, ok) ==
  [i \in 1..Len(body) |->
     IF i \in Localizable(body) THEN Img(AssetFilename(body[i].u)) ELSE body[i]]

\* ok: the references whose download answers 200 and whose file is written
RewriteImages(body, ok) ==
  [i \in 1..Len(body) |->
     IF i \in ok THEN Img(AssetFilename(body[i].u)) ELSE body[i]]

FirstOf(S) == CHOOSE i \in S : \A j \in S : i <= j

\* body: the new body; logo: the first file written; files: the files
\* written; asked: per reference, the URL requested with session.get;
\* written: per reference, the file opened for writing
download_and_replace_images(body, ok) ==
  [body  |-> RewriteImages(body, ok),
   logo  |-> IF ok = {} THEN <<>> ELSE AssetFilename(body[FirstOf(ok)].u),
   files |-> {AssetFilename(body[i].u) : i \in ok},
   asked |-> [i \in 1..Len(body) |-> IF i \in Localizable(body) THEN body[i].u ELSE <<>>],
   written |-> [i \in 1..Len(body) |-> IF i \in ok THEN AssetFilename(body[i].u) ELSE <<>>]]

NonEmpty(seq) == SelectSeq(seq, LAMBDA u : u # <<>>)

\* lines 511-541 of process_document: the images of the HTML body, of the
\* Markdown body, then the 'image' of the metadata; okI: the download of
\* that one answers 200 and its file is written
localize_assets(html, md, fm, okH, okM, okI) ==
  LET h    == download_and_replace_images(html, okH)
      m    == download_and_replace_images(md, okM)
      logo == IF h.logo # <<>> THEN h.logo ELSE m.logo
      fm1  == IF logo # <<>> THEN Put(fm, K_logo_file, logo) ELSE fm
      cover == K_image \in DOMAIN fm1 /\ StartsWithHttp(fm1[K_image])
               /\ AssetFilename(fm1[K_image]) # <<>>
  IN [html |-> h.body, md |-> m.body, cover |-> cover,
      fm |-> IF cover /\ okI THEN Put(fm1, K_image, AssetFilename(fm1[K_image])) ELSE fm1,
      files |-> h.files \cup m.files
                \cup (IF cover /\ okI THEN {AssetFilename(fm1[K_image])} ELSE {}),
      asked |-> NonEmpty(h.asked \o m.asked \o <<IF cover THEN fm1[K_image] ELSE <<>> >>),
      written |-> NonEmpty(h.written \o m.written
                           \o <<IF cover /\ okI THEN AssetFilename(fm1[K_image]) ELSE <<>> >>)]

(***************************************************************************)
(* The remote documents.  A document identifier d is a number; what the    *)
(* content API answers for d depends on its kind.                          *)
(***************************************************************************)
Kinds == <<"keys", "draft", "untitled">>

Ids == 1..Len(Kinds)

KindOf(d) == Kinds[d]

AssetUrl == HttpsScheme \o <<"h","/","m","/","a",".","p","n","g">>
BodyText == Tok("text", <<>>, <<"x">>)

\* the 'title' of the content API's answer ("" when the document has none)
ApiTitle(d) ==
  CASE KindOf(d) = "keys"  -> <<"K","e","y"," ">> \o Str(d)
    [] KindOf(d) = "draft" -> <<"D","r","a","f","t"," ">> \o Str(d)
    [] OTHER -> <<>>

\* the 'content' of the answer in Markdown
MdContent(d) ==
  CASE KindOf(d) = "keys" ->
         <<Delim,
           Tok("kv", <<"P","a","t","h">>, <<" ","c","u","s","t","o","m">>),
           Tok("kv", K_title, <<" ","M","i","n","e">>),
           Blank,
           Tok("kv", K_order, <<" ","9">>),
           Tok("kv", K_logo_file, <<" ","l",".","p","n","g">>),
           Tok("kv", <<" ","E","d","i","t","_","U","R","L"," ">>, <<" ","e">>),
           Tok("kv", K_image, <<" ","m",".","p","n","g">>),
           Delim, BodyText, Img(AssetUrl)>>
    [] KindOf(d) = "draft" ->
         <<Delim, Tok("kv", K_draft, <<" ","t","r","u","e">>), Delim, BodyText>>
    [] OTHER ->
         <<Delim, Tok("kv", K_brouillon, <<" ","n","o","n">>), Delim, BodyText>>

\* the 'content' of the answer in HTML
HtmlContent(d) ==
  CASE KindOf(d) = "keys" ->
         <<Delim, Tok("kv", K_path, <<" ","h">>), Tok("kv", K_draft, <<" ","f","a","l","s","e">>),
           Delim, Img(<<"c",".","p","n","g">>), BodyText>>
    [] KindOf(d) = "draft" ->
         <<Blank, Delim, Tok("kv", <<"B","r","o","u","i","l","l","o","n">>, <<" ","O","U","I"," ">>),
           Delim, BodyText>>
    [] OTHER -> <<>>

(***************************************************************************)
(* The resolved tree.  fetch_document_tree answers nested dictionaries;    *)
(* the dictionaries below the root are the entries 1..NumEntries, entry e  *)
(* is listed in the 'children' of entry parentOf[e] (0: the list answered  *)
(* for the root), in increasing order, and stands for document eid[e].     *)
(***************************************************************************)
NumEntries == 2

Entries == 1..NumEntries

RECURSIVE ChildrenFrom(_, _, _)
ChildrenFrom(po, p, e) ==
  IF e > NumEntries THEN <<>>
  ELSE (IF po[e] = p THEN <<e>> ELSE <<>>) \o ChildrenFrom(po, p, e + 1)

\* child.get("children", []) of entry p; the whole answer for p = 0
ChildrenOf(po, p) == ChildrenFrom(po, p, 1)

\* entry a is entry e or one of the entries above it
RECURSIVE IsAbove(_, _, _)
IsAbove(po, a, e) == IF e = 0 THEN a = 0 ELSE a = e \/ IsAbove(po, a, po[e])

\* the entries are numbered in the order of a depth-first walk, which names
\* every ordered forest of NumEntries dictionaries once
Trees == {po \in [Entries -> 0..NumEntries] :
            /\ po[1] = 0
            /\ \A e \in Entries \ {1} : po[e] < e /\ IsAbove(po, po[e], e - 1)}

SansTitre == <<"S","a","n","s"," ","t","i","t","r","e">>

MaxFails == 1

(***************************************************************************)
(* State                                                                   *)
(***************************************************************************)
VARIABLES
  root,             \* the document identifier process_document is called with
  selected_format,  \* "html", "markdown" or "both", as requested
  backend,          \* "none" or "zensical"
  parentOf, eid,    \* the tree the resolver answers (see above)
  phase,            \* "idle", "running", "done": the outermost call
  processed_ids,    \* the set shared by the calls of one traversal
  stack,            \* the active calls of process_document, innermost last
  fs,               \* files: <<directory, name>> -> what was written last
  dirs,             \* directories created
  toml,             \* zensical.toml
  events,           \* requests, writes and logged errors, in order
  fails,            \* failures of the remote service or of the disk so far
  call,             \* a call of a function on its own: [fn, arg, res]
  main,             \* main(): its arguments and where it is
  tree_call         \* a call of the tree resolver: where it is

vars == <<root, selected_format, backend, parentOf, eid, phase, processed_ids,
          stack, fs, dirs, toml, events, fails, call, main, tree_call>>

\* what the steps of process_document leave alone
inputs == <<root, selected_format, backend, parentOf, eid, call, main, tree_call>>

NoCall == [fn |-> "none", arg |-> <<>>, res |-> <<>>]
NoMain == [pc |-> "off", urls |-> <<>>, deploy |-> FALSE, i |-> 1]
NoTreeCall == [pc |-> "off", doc |-> 0, results |-> <<>>, page |-> 1, retried |-> FALSE,
               ret |-> "pending", kids |-> <<>>, i |-> 1, sub |-> <<>>, frames |-> <<>>]

Formats  == {"html", "markdown", "both"}
Backends == {"none", "zensical"}

NoFile   == [p \in {} |-> <<>>]
TomlAbsent == [state |-> "absent", site_name |-> <<>>, docs_dir |-> <<>>, logo |-> <<>>]

Init ==
  /\ root \in Ids
  /\ selected_format \in Formats
  /\ backend \in Backends
  /\ parentOf \in Trees
  /\ eid \in [Entries -> Ids]
  /\ phase = "idle"
  /\ processed_ids = {}
  /\ stack = <<>>
  /\ fs = NoFile
  /\ dirs = {}
  /\ toml = TomlAbsent
  /\ events = <<>>
  /\ fails = 0
  /\ call = NoCall
  /\ main = NoMain
  /\ tree_call = NoTreeCall

(***************************************************************************)
(* process_document                                                        *)
(***************************************************************************)
\* a mutant of EffectiveFormat: the requested format is used as it is
EffectiveFormat_requested == selected_format

\* lines 440-441: the zensical backend forces Markdown
EffectiveFormat ==
  IF backend = "zensical" /\ selected_format # "markdown" THEN "markdown" ELSE selected_format

Event(op, f, name, dir, data) ==
  [op |-> op, e |-> f.entry, doc |-> f.doc, order |-> f.order,
   name |-> name, dir |-> dir, data |-> data]

\* the local variables of one call, after processed_ids.add(doc_id)
NewFrame(entry, doc, hasKids, kids, order, parent) ==
  [entry |-> entry, doc |-> doc, order |-> order, parent |-> parent, hasKids |-> hasKids, kids |-> kids,
   pc |-> IF EffectiveFormat \in {"html", "both"} THEN "fetch_html" ELSE "fetch_md",
   title |-> SansTitre, fm |-> EmptyMap, html |-> <<>>, md |-> <<>>,
   dir |-> <<>>, i |-> 1]

Top == stack[Len(stack)]
SetTop(f) == [stack EXCEPT ![Len(stack)] = f]
Popped == SubSeq(stack, 1, Len(stack) - 1)

\* os.path.join(parent_output_dir, folder_name), as a list of components
Join(parent, folder) == IF folder = <<>> THEN parent ELSE Append(parent, folder)

Running == phase = "running" /\ stack # <<>>

\* the frames left: the caller goes on, or the traversal is over
Continue(frames) ==
  /\ stack' = frames
  /\ phase' = IF frames = <<>> THEN "done" ELSE "running"

\* a mutant of Unwound: the exception leaves every active call
Unwound_propagates == <<>>

\* the frames left when the except clause of the failing call has run
\* (lines 635-636): the call returns to its caller
Unwound == Popped

\* a failure of the remote service or of the disk inside the try block
Raise(what, frames) ==
  /\ fails < MaxFails
  /\ fails' = fails + 1
  /\ events' = events \o <<Event(what, Top, <<>>, <<>>, <<>>),
                           Event("error", Top, <<>>, <<>>, <<>>)>>
  /\ Continue(frames)

\* the outermost call: process_document(base_url, doc_id, dir, selected_format=.., backend=..)
Start ==
  /\ phase = "idle"
  /\ phase' = "running"
  /\ processed_ids' = {root}
  /\ stack' = <<NewFrame(0, root, FALSE, <<>>, 0, <<>>)>>
  /\ UNCHANGED <<inputs, fs, dirs, toml, events, fails>>

PcAfterMd ==
  IF Cardinality(processed_ids) = 1 /\ backend # "none" THEN "backend" ELSE "save_meta"
PcAfterHtml(f) == IF f.md # <<>> THEN "save_md" ELSE PcAfterMd
PcAfterRoute(f) == IF f.html # <<>> THEN "save_html" ELSE PcAfterHtml(f)

\* a mutant of merge_frontmatter: the keys already gathered are kept
merge_frontmatter_first_wins(final_frontmatter, new) == Update(new, final_frontmatter)

\* final_frontmatter.update(..) (lines 471 and 500)
merge_frontmatter(final_frontmatter, new) == Update(final_frontmatter, new)

\* lines 464-490
FetchHtml ==
  /\ Running /\ Top.pc = "fetch_html"
  /\ LET x   == extract_frontmatter(HtmlContent(Top.doc))
         t   == ApiTitle(Top.doc)
         fm1 == merge_frontmatter(Top.fm, x.fm)
         fm2 == IF K_image \notin DOMAIN fm1 /\ x.body # <<>> /\ x.body[1].t = "img"
                THEN Put(fm1, K_image, x.body[1].u) ELSE fm1
     IN stack' = SetTop([Top EXCEPT !.title = IF t # <<>> THEN t ELSE @,
                                    !.html = x.body, !.fm = fm2,
                                    !.pc = IF EffectiveFormat = "both" THEN "fetch_md" ELSE "route"])
  /\ events' = Append(events, Event("fetch_html", Top, <<>>, <<>>, <<>>))
  /\ UNCHANGED <<inputs, phase, processed_ids, fs, dirs, toml, fails>>

\* lines 493-502
FetchMd ==
  /\ Running /\ Top.pc = "fetch_md"
  /\ LET x == extract_frontmatter_markdown(MdContent(Top.doc))
         t == ApiTitle(Top.doc)
     IN stack' = SetTop([Top EXCEPT !.title = IF t # <<>> THEN t ELSE @,
                                    !.md = x.body, !.fm = merge_frontmatter(Top.fm, x.fm),
                                    !.pc = "route"])
  /\ events' = Append(events, Event("fetch_markdown", Top, <<>>, <<>>, <<>>))
  /\ UNCHANGED <<inputs, phase, processed_ids, fs, dirs, toml, fails>>

\* a mutant of AfterFetchFailure: the failure of one format is swallowed and
\* the call goes on with what it has
AfterFetchFailure_swallowed == SetTop([Top EXCEPT !.pc = "route"])

\* the frames left when fetch_document_content raises: nothing of the node
\* is kept, the except clause of the call runs
AfterFetchFailure == Unwound

\* fetch_document_content raises (raise_for_status, network error)
FetchFails ==
  /\ Running /\ Top.pc \in {"fetch_html", "fetch_md"}
  /\ Raise(IF Top.pc = "fetch_html" THEN "fetch_html_failed" ELSE "fetch_md_failed",
           AfterFetchFailure)
  /\ UNCHANGED <<inputs, processed_ids, fs, dirs, toml>>

AssetData == <<"a","s","s","e","t">>

IndexHtml    == <<"i","n","d","e","x",".","h","t","m","l">>
IndexMd      == <<"i","n","d","e","x",".","m","d">>
MetadataJson == <<"m","e","t","a","d","a","t","a",".","j","s","o","n">>

\* fs after writing the files of names into dir
WithAssets(files, dir, names, doc) ==
  [p \in DOMAIN files \cup {<<dir, n>> : n \in names} |->
     IF p[1] = dir /\ p[2] \in names THEN [doc |-> doc, data |-> AssetData] ELSE files[p]]

\* a mutant of folder_name: the 'path' key of the metadata wins
folder_name_path(f) == IF K_path \in DOMAIN f.fm THEN f.fm[K_path] ELSE slugify(f.title)

\* the folder of the document (line 506)
folder_name(f) == slugify(f.title)

\* lines 504-543: the folder, then the images of both bodies and of the metadata
Route ==
  /\ Running /\ Top.pc = "route"
  /\ LET dir == Join(Top.parent, folder_name(Top)) IN
     \E okH \in SUBSET Localizable(Top.html), okM \in SUBSET Localizable(Top.md), okI \in BOOLEAN :
       LET r  == localize_assets(Top.html, Top.md, Top.fm, okH, okM, okI)
           f1 == [Top EXCEPT !.dir = dir, !.html = r.html, !.md = r.md, !.fm = r.fm]
       IN /\ (okI => r.cover)
          /\ stack' = SetTop([f1 EXCEPT !.pc = PcAfterRoute(f1)])
          /\ fs' = WithAssets(fs, dir, r.files, Top.doc)
          /\ dirs' = IF r.asked # <<>> THEN dirs \cup {dir} ELSE dirs
          /\ events' = events
                        \o [j \in 1..Len(r.asked) |-> Event("download", Top, r.asked[j], dir, <<>>)]
                        \o <<Event("route", Top, <<>>, dir, [fm |-> Top.fm, title |-> Top.title])>>
  /\ UNCHANGED <<inputs, phase, processed_ids, toml, fails>>

\* save_file
Written(files, dir, name, doc, data) ==
  [p \in DOMAIN files \cup {<<dir, name>>} |->
     IF p = <<dir, name>> THEN [doc |-> doc, data |-> data] ELSE files[p]]

\* lines 547-548
SaveHtml ==
  /\ Running /\ Top.pc = "save_html"
  /\ fs' = Written(fs, Top.dir, IndexHtml, Top.doc, Top.html)
  /\ dirs' = dirs \cup {Top.dir}
  /\ events' = Append(events, Event("write", Top, IndexHtml, Top.dir, Top.html))
  /\ stack' = SetTop([Top EXCEPT !.pc = PcAfterHtml(Top)])
  /\ UNCHANGED <<inputs, phase, processed_ids, toml, fails>>

EditUrl(d) == <<"/","d","o","c","s","/">> \o Str(d) \o <<"/">>

\* lines 550-571
SaveMd ==
  /\ Running /\ Top.pc = "save_md"
  /\ LET fm1  == Put(Top.fm, K_edit_url, EditUrl(Top.doc))
         data == [fm |-> fm1, title |-> Top.title, body |-> Top.md]
     IN /\ fs' = Written(fs, Top.dir, IndexMd, Top.doc, data)
        /\ events' = Append(events, Event("write", Top, IndexMd, Top.dir, data))
        /\ stack' = SetTop([Top EXCEPT !.fm = fm1, !.pc = PcAfterMd])
  /\ dirs' = dirs \cup {Top.dir}
  /\ UNCHANGED <<inputs, phase, processed_ids, toml, fails>>

\* save_file raises (the disk refuses the write)
SaveFails ==
  /\ Running /\ Top.pc \in {"save_html", "save_md", "save_meta"}
  /\ Raise("write_failed", Unwound)
  /\ UNCHANGED <<inputs, processed_ids, fs, dirs, toml>>

\* a mutant of setup_zensical_backend: the file is generated again when it
\* is there
setup_zensical_backend_again(metadata, title, outcome) ==
  IF outcome = "new_fails" THEN toml
  ELSE IF outcome = "update_fails" THEN [toml EXCEPT !.state = "default"]
  ELSE [state |-> "configured", site_name |-> title, docs_dir |-> slugify(title),
        logo |-> <<>>]

\* zensical_backend.setup_zensical_backend: outcome is what happens to
\* 'zensical new' and to the update of the file it creates
setup_zensical_backend(metadata, title, outcome) ==
  IF toml.state # "absent" THEN toml
  ELSE IF outcome = "new_fails" THEN toml
  ELSE IF outcome = "update_fails" THEN [toml EXCEPT !.state = "default"]
  ELSE [state |-> "configured",
        site_name |-> IF K_site_name \in DOMAIN metadata THEN metadata[K_site_name]
                      ELSE IF K_title \in DOMAIN metadata THEN metadata[K_title]
                      ELSE title,
        docs_dir |-> slugify(title),
        logo |-> IF K_logo_file \in DOMAIN metadata THEN metadata[K_logo_file] ELSE <<>>]

\* what setup_zensical_backend logs and runs: the command 'zensical new'
\* when the file is not there, an error when a step fails
BackendEvents(f, before, after, outcome) ==
  <<Event("setup_backend", f, <<>>, <<>>, <<>>)>>
  \o (IF after = before /\ before.state # "absent" THEN <<>>
      ELSE <<Event("zensical_new", f, <<>>, <<>>, <<>>)>>
           \o (IF after.state = "configured" THEN <<>>
               ELSE <<Event("backend_failed", f, <<>>, <<>>, <<>>),
                      Event("error", f, <<>>, <<>>, <<>>)>>))

\* lines 575-590: the first document of the traversal configures the backend
Backend ==
  /\ Running /\ Top.pc = "backend"
  /\ \E outcome \in {"new_fails", "update_fails", "ok"} :
       LET after == setup_zensical_backend(Top.fm, Top.title, outcome) IN
       /\ toml' = after
       /\ events' = events
                     \o (IF Top.hasKids THEN <<>> ELSE <<Event("resolve", Top, <<>>, <<>>, <<>>)>>)
                     \o BackendEvents(Top, toml, after, outcome)
  /\ stack' = SetTop([Top EXCEPT !.hasKids = TRUE,
                                 !.kids = IF Top.hasKids THEN @ ELSE ChildrenOf(parentOf, 0),
                                 !.pc = "save_meta"])
  /\ UNCHANGED <<inputs, phase, processed_ids, fs, dirs, fails>>

TransientKeys == {K_path, K_logo_file, K_edit_url}

\* a mutant of final_metadata: the keys of the frontmatter win over the
\* injected ones and nothing is stripped
final_metadata_user_wins(f) ==
  Update(Put(Put(EmptyMap, K_title, f.title), K_order, Str(f.order)), f.fm)

\* the metadata stored in metadata.json (lines 596-605)
final_metadata(f) ==
  Without(Put(Put(f.fm, K_title, f.title), K_order, Str(f.order)), TransientKeys)

\* lines 592-609
SaveMeta ==
  /\ Running /\ Top.pc = "save_meta"
  /\ LET data == final_metadata(Top)
     IN /\ fs' = Written(fs, Top.dir, MetadataJson, Top.doc, data)
        /\ events' = Append(events, Event("write", Top, MetadataJson, Top.dir, data))
        /\ stack' = SetTop([Top EXCEPT !.fm = data,
                                       !.pc = IF Top.hasKids THEN "children" ELSE "resolve"])
  /\ dirs' = dirs \cup {Top.dir}
  /\ UNCHANGED <<inputs, phase, processed_ids, toml, fails>>

\* lines 616-618: the traversal root resolves the tree
Resolve ==
  /\ Running /\ Top.pc = "resolve"
  /\ stack' = SetTop([Top EXCEPT !.hasKids = TRUE, !.kids = ChildrenOf(parentOf, 0),
                                 !.pc = "children"])
  /\ events' = Append(events, Event("resolve", Top, <<>>, <<>>, <<>>))
  /\ UNCHANGED <<inputs, phase, processed_ids, fs, dirs, toml, fails>>

\* fetch_document_tree raises
ResolveFails ==
  /\ Running
  /\ \/ Top.pc = "resolve"
     \/ Top.pc = "backend" /\ ~Top.hasKids
  /\ Raise("resolve_failed", Unwound)
  /\ UNCHANGED <<inputs, processed_ids, fs, dirs, toml>>

\* a mutant of child_order: counting from one
child_order_from_one(i) == i

\* the order passed to child number i (1-based) of the list (line 632)
child_order(i) == i - 1

\* a mutant of AlreadyProcessed: the set is not consulted
AlreadyProcessed_never(d) == FALSE

\* if doc_id in processed_ids: return  (lines 448-449)
AlreadyProcessed(d) == d \in processed_ids

\* lines 620-633, one turn of the loop whose child was already processed:
\* the call returns at line 449
SkipChild ==
  /\ Running /\ Top.pc = "children" /\ Top.i <= Len(Top.kids)
  /\ AlreadyProcessed(eid[Top.kids[Top.i]])
  /\ stack' = SetTop([Top EXCEPT !.i = @ + 1])
  /\ events' = Append(events, [op |-> "skip", e |-> Top.kids[Top.i], doc |-> eid[Top.kids[Top.i]],
                                order |-> child_order(Top.i), name |-> <<>>, dir |-> Top.dir,
                                data |-> <<>>])
  /\ UNCHANGED <<inputs, phase, processed_ids, fs, dirs, toml, fails>>

\* a mutant of ChildListGiven: the child is called without a list
ChildListGiven_none(c) == FALSE

\* children_list=child.get("children", []) (line 629): the list a child is
\* called with is never None, an entry without the key gives []
ChildListGiven(c) == TRUE

\* lines 620-633, one turn of the loop: the recursive call
CallChild ==
  /\ Running /\ Top.pc = "children" /\ Top.i <= Len(Top.kids)
  /\ LET c == Top.kids[Top.i] IN
     /\ ~AlreadyProcessed(eid[c])
     /\ processed_ids' = processed_ids \cup {eid[c]}
     /\ stack' = Append(SetTop([Top EXCEPT !.i = @ + 1]),
                        NewFrame(c, eid[c], ChildListGiven(c), ChildrenOf(parentOf, c),
                                 child_order(Top.i), Top.dir))
  /\ UNCHANGED <<inputs, phase, fs, dirs, toml, events, fails>>

\* the loop is over, the call returns
Return ==
  /\ Running /\ Top.pc = "children" /\ Top.i > Len(Top.kids)
  /\ Continue(Popped)
  /\ UNCHANGED <<inputs, processed_ids, fs, dirs, toml, events, fails>>

Next ==
  \/ Start
  \/ FetchHtml
  \/ FetchMd
  \/ FetchFails
  \/ Route
  \/ SaveHtml
  \/ SaveMd
  \/ SaveFails
  \/ Backend
  \/ SaveMeta
  \/ Resolve
  \/ ResolveFails
  \/ SkipChild
  \/ CallChild
  \/ Return

Spec == Init /\ [][Next]_vars

(***************************************************************************)
(* is_draft on its own                                                     *)
(***************************************************************************)
V_OUI_sp  == <<"O","U","I"," ">>
V_sp_True == <<" ","T","r","u","e">>
V_Yes     == <<"Y","e","s">>
V_one     == <<"1">>

DraftValues == {V_true, V_yes, V_oui, V_OUI_sp, V_sp_True, V_Yes, V_false, V_non, V_one, <<>>}
DraftInputKeys == {K_draft, K_brouillon, K_title}
MetadataInputs == UNION {[ks -> DraftValues] : ks \in SUBSET DraftInputKeys}

InitDraft ==
  /\ root = 1 /\ selected_format = "both" /\ backend = "none"
  /\ parentOf = [e \in Entries |-> 0] /\ eid = [e \in Entries |-> 1]
  /\ phase = "idle" /\ processed_ids = {} /\ stack = <<>> /\ fs = NoFile
  /\ dirs = {} /\ toml = TomlAbsent /\ events = <<>> /\ fails = 0
  /\ call \in {[fn |-> "is_draft", arg |-> m, res |-> <<>>] : m \in MetadataInputs}
  /\ main = NoMain /\ tree_call = NoTreeCall

is_draft_call ==
  /\ call.fn = "is_draft" /\ call.res = <<>>
  /\ call' = [call EXCEPT !.res = <<is_draft(call.arg)>>]
  /\ UNCHANGED <<root, selected_format, backend, parentOf, eid, phase, processed_ids,
                 stack, fs, dirs, toml, events, fails, main, tree_call>>

NextDraft == is_draft_call

SpecDraft == InitDraft /\ [][NextDraft]_vars

(***************************************************************************)
(* The functions of main.py called on their own                            *)
(***************************************************************************)
MaxBody == 3
MaxRefs == 2

SeqsUpTo(S, n) == UNION {[1..k -> S] : k \in 0..n}

Uuid == <<"f","a","5","5","8","3","b","2","-","3","7","f","c","-","4","0","1","6","-","9","9","8","f","-","f","5","2","3","7","f","d","4","1","6","4","2">>

\* references given on the command line
UrlInputs ==
  {<<"h","t","t","p","s",":","/","/","h","/","d","o","c","s","/","A","B","C","1","2","3","/">>,
   <<"h","t","t","p","s",":","/","/","h","/","d","o","c","s","/","a">>,
   <<"h","t","t","p",":","/","/","h","/","x","/","d","o","c","s","/","b","/","c">>,
   <<"h","t","t","p","s",":","/","/","h","/","d","o","c","s","/">>,
   <<"h","t","t","p","s",":","/","/","h","/","d","o","c","s","/","/","d","o","c","s","/","x">>,
   <<"h","t","t","p","s",":","/","/","h","?","x","=","/","d","o","c","s","/","a">>,
   <<"h","t","t","p","s",":","/","/","h","/","a","?","x","=","/","d","o","c","s","/","a">>,
   <<"h","t","t","p","s",":","/","/","h","/","d","o","c","s","/","q","#","f">>,
   <<"/","d","o","c","s","/","z">>,
   <<"d","o","c","s","/","a","b","c">>,
   <<"n","o","p","e">>,
   <<>>,
   Uuid, Uuid \o <<"\n">>, SubSeq(Uuid, 1, 35), Uuid \o <<"0">>,
   [i \in 1..36 |-> IF Uuid[i] = "f" THEN "F" ELSE Uuid[i]]}

\* lines and paragraphs of the bodies given to the extractors
ExtractTokens == {Blank, Delim, BodyText, Tok("kv", K_draft, <<" ","t","r","u","e">>)}
BodyInputs == SeqsUpTo(ExtractTokens, MaxBody)

\* titles: empty, plain, accented, and titles that hold no letter at all
TitleInputs ==
  {<<>>, <<"H","e","l","l","o"," ","W","o","r","l","d">>,
   <<"C","'","e","s","t"," ","l","'","é","t","é"," ","!">>,
   <<"!","!">>, <<"日">>, <<" ">>, <<"-">>, <<"é"," ","!">>}

NoNameUrl == HttpsScheme \o <<"h","/">>
LocalRef  == <<"c",".","p","n","g">>

\* what happens to the download of one reference
Outcomes == {"ok", "status", "network_error", "write_error"}

ImageTokens == {BodyText, Img(AssetUrl), Img(NoNameUrl), Img(LocalRef)}
ImageInputs ==
  UNION {[body : {b}, outcome : [1..Len(b) -> Outcomes]] : b \in SeqsUpTo(ImageTokens, MaxRefs)}

\* the references whose download answers 200 and whose file is written
OkRefs(body, outcome) == {i \in Localizable(body) : outcome[i] = "ok"}

AssetBodies == SeqsUpTo({BodyText, Img(AssetUrl)}, MaxRefs)
ImageMetadata == {EmptyMap, Put(EmptyMap, K_image, AssetUrl), Put(EmptyMap, K_image, LocalRef)}
LocalizeInputs ==
  UNION {[html : {h}, md : {m}, fm : {f}, okH : SUBSET Localizable(h),
          okM : SUBSET Localizable(m),
          okI : IF K_image \in DOMAIN f /\ StartsWithHttp(f[K_image]) THEN BOOLEAN ELSE {FALSE}] :
         h \in AssetBodies, m \in AssetBodies, f \in ImageMetadata}

\* no traversal is going on
NoTraversal ==
  /\ root = 1 /\ selected_format = "both" /\ backend = "none"
  /\ parentOf = [e \in Entries |-> 0] /\ eid = [e \in Entries |-> 1]
  /\ phase = "idle" /\ processed_ids = {} /\ stack = <<>> /\ fs = NoFile
  /\ dirs = {} /\ toml = TomlAbsent /\ events = <<>> /\ fails = 0

Called(fn, args) == call \in [fn : {fn}, arg : args, res : {<<>>}]

InitCalls ==
  /\ NoTraversal /\ main = NoMain /\ tree_call = NoTreeCall
  /\ \/ Called("parse_docs_url", UrlInputs)
     \/ Called("extract_frontmatter", BodyInputs)
     \/ Called("extract_frontmatter_markdown", BodyInputs)
     \/ Called("download_and_replace_images", ImageInputs)
     \/ Called("localize_assets", LocalizeInputs)
     \/ Called("slugify", TitleInputs)

Returns(fn, value) ==
  /\ call.fn = fn /\ call.res = <<>>
  /\ call' = [call EXCEPT !.res = <<value>>]
  /\ UNCHANGED <<root, selected_format, backend, parentOf, eid, phase, processed_ids,
                 stack, fs, dirs, toml, events, fails, main, tree_call>>

parse_docs_url_call == Returns("parse_docs_url", parse_docs_url(call.arg))

extract_frontmatter_call == Returns("extract_frontmatter", extract_frontmatter(call.arg))

extract_frontmatter_markdown_call ==
  Returns("extract_frontmatter_markdown", extract_frontmatter_markdown(call.arg))

download_and_replace_images_call ==
  Returns("download_and_replace_images",
          download_and_replace_images(call.arg.body, OkRefs(call.arg.body, call.arg.outcome)))

localize_assets_call ==
  Returns("localize_assets",
          localize_assets(call.arg.html, call.arg.md, call.arg.fm,
                          call.arg.okH, call.arg.okM, call.arg.okI))

slugify_call == Returns("slugify", slugify(call.arg))

NextCalls ==
  \/ parse_docs_url_call
  \/ extract_frontmatter_call
  \/ extract_frontmatter_markdown_call
  \/ download_and_replace_images_call
  \/ localize_assets_call
  \/ slugify_call

SpecCalls == InitCalls /\ [][NextCalls]_vars

(***************************************************************************)
(* main()                                                                  *)
(***************************************************************************)
MaxUrls == 3

\* the references given on the command line: the URLs of documents 2 and
\* 3, and a text that is neither a URL of a document nor an identifier
RefOf(d) == <<"h","t","t","p","s",":","/","/","h">> \o EditUrl(d)
BadRef   == <<"n","o","p","e">>
UrlLists == UNION {[1..k -> {RefOf(2), RefOf(3), BadRef}] : k \in 1..MaxUrls}

\* the document a parsed identifier names
DocOfId(id) == CHOOSE d \in Ids : Str(d) = id

\* what an earlier run left: a file under content/source and a
\* zensical.toml edited by hand
StaleDir   == <<<<"o","l","d">>>>
StaleFiles == Written(NoFile, StaleDir, IndexMd, 0, <<>>)
TomlEdited == [state |-> "edited", site_name |-> <<"M","i","n","e">>,
               docs_dir |-> <<"o","l","d">>, logo |-> <<>>]

MainEvent(op, name, order) ==
  [op |-> op, e |-> 0, doc |-> 0, order |-> order, name |-> name, dir |-> <<>>, data |-> <<>>]

\* --format and --backend; the content directory before the run
MainArgs  == {<<"both", "none">>, <<"html", "zensical">>}
MainDisks == {<<NoFile, {}, TomlAbsent>>, <<StaleFiles, {StaleDir}, TomlEdited>>}

InitMain ==
  /\ main \in [pc : {"start"}, urls : UrlLists, deploy : BOOLEAN, i : {1}]
  /\ \E a \in MainArgs : selected_format = a[1] /\ backend = a[2]
  /\ \E d \in MainDisks : fs = d[1] /\ dirs = d[2] /\ toml = d[3]
  /\ root = 1
  /\ parentOf = [e \in Entries |-> 0] /\ eid = [e \in Entries |-> 3]
  /\ phase = "main" /\ processed_ids = {} /\ stack = <<>>
  /\ events = <<>>
  /\ fails = MaxFails - 1   \* one failure at most in a run of main()
  /\ call = NoCall /\ tree_call = NoTreeCall

\* a mutant of Downloading: the download is done with --deploy too
Downloading_always == TRUE

\* if not args.deploy (line 736)
Downloading == ~main.deploy

\* lines 736-742 and 751-752: the source directory is removed before the
\* download; with --deploy nothing is removed and nothing is downloaded
MainBegin ==
  /\ main.pc = "start"
  /\ IF Downloading
     THEN /\ main' = [main EXCEPT !.pc = "loop"]
          /\ fs' = NoFile /\ dirs' = {}
          /\ events' = IF dirs # {} THEN Append(events, MainEvent("rmtree", <<>>, 0))
                        ELSE events
     ELSE /\ main' = [main EXCEPT !.pc = "deploy"]
          /\ events' = Append(events, MainEvent("info", <<>>, 0))
          /\ UNCHANGED <<fs, dirs>>
  /\ UNCHANGED <<root, selected_format, backend, parentOf, eid, phase, processed_ids,
                 stack, toml, fails, call, tree_call>>

\* the previous call of process_document has returned
BetweenCalls == phase \in {"main", "done"}

\* lines 745-748: the reference is parsed and process_document is called,
\* with a new processed_ids and order = i
MainCall ==
  /\ main.pc = "loop" /\ main.i <= Len(main.urls) /\ BetweenCalls
  /\ LET r == parse_docs_url(main.urls[main.i]) IN
     /\ r.ok
     /\ root' = DocOfId(r.id)
     /\ processed_ids' = {root'}
     /\ phase' = "running"
     /\ stack' = <<NewFrame(0, root', FALSE, <<>>, main.i - 1, <<>>)>>
     /\ events' = Append(events, MainEvent("process_document", r.id, main.i - 1))
     /\ main' = [main EXCEPT !.i = @ + 1]
  /\ UNCHANGED <<selected_format, backend, parentOf, eid, fs, dirs, toml, fails, call,
                 tree_call>>

\* a mutant of AfterParseError: the loop is left at the first bad reference
AfterParseError_stop(i) == Len(main.urls) + 1

\* the index of the loop after the except clause of lines 749-750
AfterParseError(i) == i + 1

\* lines 747-750: parse_docs_url raises ValueError, which is logged
MainParseError ==
  /\ main.pc = "loop" /\ main.i <= Len(main.urls) /\ BetweenCalls
  /\ ~parse_docs_url(main.urls[main.i]).ok
  /\ events' = Append(events, MainEvent("parse_error", main.urls[main.i], main.i - 1))
  /\ main' = [main EXCEPT !.i = AfterParseError(@)]
  /\ UNCHANGED <<root, selected_format, backend, parentOf, eid, phase, processed_ids,
                 stack, fs, dirs, toml, fails, call, tree_call>>

\* the loop is over; args.deploy is false at line 755
MainLoopEnd ==
  /\ main.pc = "loop" /\ main.i > Len(main.urls) /\ BetweenCalls
  /\ main' = [main EXCEPT !.pc = "exit"]
  /\ UNCHANGED <<root, selected_format, backend, parentOf, eid, phase, processed_ids,
                 stack, fs, dirs, toml, events, fails, call, tree_call>>

\* lines 755-762: deploy_zensical, or a warning for another backend
MainDeploy ==
  /\ main.pc = "deploy"
  /\ events' = Append(events, MainEvent(IF backend = "zensical" THEN "deploy"
                                         ELSE "deploy_unsupported", <<>>, 0))
  /\ main' = [main EXCEPT !.pc = "exit"]
  /\ UNCHANGED <<root, selected_format, backend, parentOf, eid, phase, processed_ids,
                 stack, fs, dirs, toml, fails, call, tree_call>>

NextMain ==
  \/ MainBegin
  \/ MainCall
  \/ MainParseError
  \/ MainLoopEnd
  \/ MainDeploy
  \/ FetchHtml
  \/ FetchMd
  \/ FetchFails
  \/ Route
  \/ SaveHtml
  \/ SaveMd
  \/ SaveFails
  \/ Backend
  \/ SaveMeta
  \/ Resolve
  \/ ResolveFails
  \/ SkipChild
  \/ CallChild
  \/ Return

SpecMain == InitMain /\ [][NextMain]_vars

(***************************************************************************)
(* The tree resolver: fetch_document_descendants and fetch_document_tree   *)
(***************************************************************************)
MaxPages == 2

\* the calls of fetch_document_tree that may wait for a nested call
MaxDepth == 2

\* the length of the last part of a 'path' (line 262)
PathStep == 7

TreeEvent(op, name) ==
  [op |-> op, e |-> 0, doc |-> tree_call.doc, order |-> tree_call.page, name |-> name,
   dir |-> <<>>, data |-> <<>>]

AllAncestor == <<"a","l","l","?","a","n","c","e","s","t","o","r">>
AllId       == <<"a","l","l","?","i","d">>
Descendants == <<"d","e","s","c","e","n","d","a","n","t","s">>
Details     == <<"d","e","t","a","i","l","s">>
Children    == <<"c","h","i","l","d","r","e","n">>

\* The remote service.  'kids' is what '/documents/<d>/children/' lists for
\* each document, 'up' the document whose path is the path of d without its
\* last part (0: none), 'mode' what the service offers for each document.
RemoteGraphs ==
  {[kids |-> <<<<2>>, <<3>>, <<>>>>,     up |-> <<0, 1, 2>>],   \* 1 > 2 > 3
   [kids |-> <<<<2, 3>>, <<>>, <<>>>>,   up |-> <<0, 1, 1>>],   \* 2 and 3 under 1
   [kids |-> <<<<2, 3>>, <<3>>, <<>>>>,  up |-> <<0, 1, 1>>],   \* 3 listed under 1 and under 2
   [kids |-> <<<<2>>, <<1>>, <<>>>>,     up |-> <<0, 1, 0>>]}   \* 2 lists 1, which is above it

\* "all": '/documents/all/' answers for ?ancestor= and for ?id=;
\* "all_id": it answers for ?id= only, with the document and what is below;
\* "descendants": only the paginated listing is there; "none": neither;
\* "nopath": as "all", and the details of a document have no 'path'
ApiModes == {"all", "all_id", "descendants", "none", "nopath"}

ModeMaps ==
  {[d \in Ids |-> m] : m \in ApiModes}
  \cup {[d \in Ids |-> IF d = 1 THEN "none" ELSE m] : m \in {"all", "all_id", "nopath"}}

Remotes == {[kids |-> g.kids, up |-> g.up, mode |-> a] : g \in RemoteGraphs, a \in ModeMaps}

\* the service the running call talks to
Remote == call.arg

\* the last PathStep characters of the path of document d
PathPart(d) == [k \in 1..(PathStep - 1) |-> "0"] \o Str(d)

RECURSIVE PathOf(_, _)
PathOf(r, d) == IF r.up[d] = 0 THEN PathPart(d) ELSE PathOf(r, r.up[d]) \o PathPart(d)

IdSeq == [d \in Ids |-> d]

\* the documents below d, as the service lists them
Listing(r, d) == SelectSeq(IdSeq, LAMBDA x : x # d /\ IsPrefix(PathOf(r, d), PathOf(r, x)))

\* child.get("numchild", 0)
numchild(r, c) == Len(r.kids[c])

\* the answer to '/documents/all/?<param>=<d>': status 200 or not, 'results'
AllAnswer(r, param, d) ==
  CASE r.mode[d] \in {"all", "nopath"} ->
         [ok |-> TRUE, results |-> IF param = "ancestor" THEN Listing(r, d) ELSE <<d>>]
    [] r.mode[d] = "all_id" /\ param = "id" ->
         [ok |-> TRUE, results |-> <<d>> \o Listing(r, d)]
    [] OTHER -> [ok |-> FALSE, results |-> <<>>]

\* the paginated listing is there
Serves == Remote.mode[tree_call.doc] # "none"

\* a call of fetch_document_descendants, or of fetch_document_tree, at its
\* first line
NewTreeCall(d) ==
  [pc |-> "all_ancestor", doc |-> d, results |-> <<>>, page |-> 1, retried |-> FALSE,
   ret |-> "pending", kids |-> <<>>, i |-> 1, sub |-> <<>>, frames |-> <<>>]

InitTree ==
  /\ NoTraversal /\ main = NoMain
  /\ Called("fetch_document_descendants", Remotes)
  /\ \E d \in Ids : tree_call = NewTreeCall(d)

\* one step of the resolver; cost is 1 for an answer the service gives by
\* accident (an error, a 429), and these are MaxFails at most
TreeDo(ev, tc, cost, res) ==
  /\ fails + cost <= MaxFails
  /\ fails' = fails + cost
  /\ events' = events \o ev
  /\ tree_call' = tc
  /\ call' = [call EXCEPT !.res = res]
  /\ UNCHANGED <<root, selected_format, backend, parentOf, eid, phase, processed_ids,
                 stack, fs, dirs, toml, main>>

TreeStep(ev, tc) == TreeDo(ev, tc, 0, call.res)

TreeIncident(ev, tc) == TreeDo(ev, tc, 1, call.res)

\* lines 180-191, one turn of the loop over "ancestor" and "id"
BulkQuery ==
  /\ tree_call.pc \in {"all_ancestor", "all_id"}
  /\ LET param == IF tree_call.pc = "all_ancestor" THEN "ancestor" ELSE "id"
         name  == IF tree_call.pc = "all_ancestor" THEN AllAncestor ELSE AllId
         next  == IF tree_call.pc = "all_ancestor" THEN "all_id" ELSE "descendants"
         req   == TreeEvent("request", name)
         ans   == AllAnswer(Remote, param, tree_call.doc)
     IN \E outcome \in {"raises", "429", "answer"} :
          CASE outcome = "raises" ->
                 \* except Exception: pass
                 TreeIncident(<<req, TreeEvent("bulk_failed", name)>>,
                              [tree_call EXCEPT !.pc = next])
            [] outcome = "429" ->
                 \* the status is not 200: the next route is tried
                 TreeIncident(<<req, TreeEvent("rate_limited", name)>>,
                              [tree_call EXCEPT !.pc = next])
            [] OTHER ->
                 IF ans.ok /\ Len(ans.results) > 0
                 THEN TreeStep(<<req, TreeEvent("info", name)>>,
                               [tree_call EXCEPT !.pc = "returned", !.ret = "results",
                                                 !.results = ans.results])
                 ELSE TreeStep(<<req>>, [tree_call EXCEPT !.pc = next])

\* a mutant of ListingValue: an empty list is returned as it is
ListingValue_list(results) == "results"

\* 'return None if not results else results' (line 203), and lines 216-221
ListingValue(results) == IF results # <<>> THEN "results" ELSE "None"

\* what is returned when the pages are over (lines 216-221)
PagesOver(results) ==
  TreeStep(<<TreeEvent("request", Descendants)>>
           \o (IF results # <<>> THEN <<TreeEvent("info", Descendants)>> ELSE <<>>),
           [tree_call EXCEPT !.pc = "returned", !.ret = ListingValue(results),
                             !.results = results, !.retried = FALSE])

\* the except clause of lines 222-224: a warning, and None is returned
PageFails(cost) ==
  TreeDo(<<TreeEvent("request", Descendants), TreeEvent("page_failed", Descendants),
           TreeEvent("warning", Descendants)>>,
         [tree_call EXCEPT !.pc = "returned", !.ret = "None", !.retried = FALSE],
         cost, call.res)

\* what the listing still has to give
Rest ==
  LET l == Listing(Remote, tree_call.doc)
  IN SubSeq(l, Len(tree_call.results) + 1, Len(l))

\* the sizes a page can have: a page is empty only when the listing is
PageSizes == IF Rest = <<>> THEN {0} ELSE 1..Len(Rest)

\* a page of k entries is answered: its results are kept and the next
\* page, when 'next' is there, is asked (lines 209-214)
PageAnswered(k) ==
  LET results == tree_call.results \o SubSeq(Rest, 1, k)
  IN IF k < Len(Rest)
     THEN /\ tree_call.page < MaxPages
          /\ TreeStep(<<TreeEvent("request", Descendants)>>,
                      [tree_call EXCEPT !.results = results, !.page = @ + 1,
                                        !.retried = FALSE])
     ELSE PagesOver(results)

\* lines 199-214, one request of the loop over the pages
DescendantsPage ==
  /\ tree_call.pc = "descendants" /\ ~tree_call.retried
  /\ \/ \* 404: the route is not there, or is gone
        TreeDo(<<TreeEvent("request", Descendants), TreeEvent("not_found", Descendants)>>,
               [tree_call EXCEPT !.pc = "returned", !.ret = ListingValue(tree_call.results)],
               IF Serves THEN 1 ELSE 0, call.res)
     \/ \* 429: the same address is asked again
        TreeIncident(<<TreeEvent("request", Descendants),
                       TreeEvent("rate_limited", Descendants)>>,
                     [tree_call EXCEPT !.retried = TRUE])
     \/ PageFails(1)
     \/ Serves /\ \E k \in PageSizes : PageAnswered(k)

\* lines 205-209: the request sent again after a 429; any status that is
\* not a success makes raise_for_status raise
DescendantsRetry ==
  /\ tree_call.pc = "descendants" /\ tree_call.retried
  /\ \/ PageFails(0)
     \/ Serves /\ \E k \in PageSizes : PageAnswered(k)

NextTree ==
  \/ BulkQuery
  \/ DescendantsPage
  \/ DescendantsRetry

SpecTree == InitTree /\ [][NextTree]_vars

(***************************************************************************)
(* fetch_document_tree                                                     *)
(***************************************************************************)
InitResolve ==
  /\ NoTraversal /\ main = NoMain
  /\ Called("fetch_document_tree", Remotes)
  /\ \E d \in Ids : tree_call = NewTreeCall(d)

\* an entry of the tree: the document and its 'children'
Node(id, children) == [id |-> id, children |-> children]

\* path[:-7]
ParentPath(path) == SubSeq(path, 1, Len(path) - PathStep)

\* docs_by_path[path] after the loop of lines 252-254: the last entry of
\* the results with this path, else root_doc (0) for the path of the
\* root; -1 when the path is not a key
Holder(r, d, results, path) ==
  LET js == {j \in 1..Len(results) : PathOf(r, results[j]) = path}
  IN IF js # {} THEN CHOOSE j \in js : \A k \in js : k <= j
     ELSE IF path = PathOf(r, d) THEN 0 ELSE -1

\* the 'children' of object o after the loop of lines 258-264
Attached(r, d, results, o) ==
  SelectSeq([j \in 1..Len(results) |-> j],
            LAMBDA j : Holder(r, d, results, ParentPath(PathOf(r, results[j]))) = o)

RECURSIVE Nested(_, _, _, _)
Nested(r, d, results, o) ==
  LET js == Attached(r, d, results, o)
  IN [k \in 1..Len(js) |-> Node(results[js[k]], Nested(r, d, results, js[k]))]

\* root_doc.get("children", []) (line 268)
BulkTree(r, d, results) == Nested(r, d, results, 0)

\* a call of fetch_document_tree returns value: to process_document, or to
\* the call that waits at line 279
TreeReturn(ev, value, via) ==
  IF tree_call.frames = <<>>
  THEN TreeDo(ev, [tree_call EXCEPT !.pc = "done"], 0,
              <<[ok |-> TRUE, tree |-> value, via |-> via]>>)
  ELSE LET f == tree_call.frames[Len(tree_call.frames)]
       IN TreeStep(ev, [NewTreeCall(f.doc) EXCEPT
                          !.pc = "loop", !.kids = f.kids, !.i = f.i + 1,
                          !.sub = Append(f.sub, Node(f.kids[f.i], value)),
                          !.frames = SubSeq(tree_call.frames, 1, Len(tree_call.frames) - 1)])

\* raise_for_status, or the network, raises: nothing in fetch_document_tree
\* catches it, every waiting call is left
TreeRaises(ev, cost) ==
  TreeDo(ev \o <<TreeEvent("raised", <<>>)>>, [tree_call EXCEPT !.pc = "raised"], cost,
         <<[ok |-> FALSE, tree |-> <<>>, via |-> "raised"]>>)

\* lines 235-268: fetch_document_details (lines 155-171), then the tree is
\* rebuilt from the paths, or given up when the root has no path
TreeDetails ==
  /\ tree_call.pc = "returned" /\ tree_call.ret = "results"
  /\ LET req == TreeEvent("request", Details) IN
     \/ /\ ~tree_call.retried
        /\ TreeIncident(<<req, TreeEvent("rate_limited", Details)>>,
                        [tree_call EXCEPT !.retried = TRUE])
     \/ TreeRaises(<<req>>, IF tree_call.retried THEN 0 ELSE 1)
     \/ IF Remote.mode[tree_call.doc] = "nopath"
        THEN TreeStep(<<req, TreeEvent("info", Details), TreeEvent("warning", Details)>>,
                      [tree_call EXCEPT !.pc = "direct_children", !.retried = FALSE])
        ELSE TreeReturn(<<req, TreeEvent("info", Details)>>,
                        BulkTree(Remote, tree_call.doc, tree_call.results), "bulk")

\* fetch_document_children (lines 128-153), called at line 243 for a root
\* without path and at line 273 when no bulk route gave anything
TreeChildren ==
  /\ \/ tree_call.pc = "direct_children"
     \/ tree_call.pc = "returned" /\ tree_call.ret = "None"
  /\ LET direct == tree_call.pc = "direct_children"
         kids   == Remote.kids[tree_call.doc]
         req    == (IF direct \/ tree_call.retried THEN <<>>
                    ELSE <<TreeEvent("info", <<>>)>>)
                   \o <<TreeEvent("request", Children)>>
     IN \/ /\ ~tree_call.retried
           /\ TreeIncident(req \o <<TreeEvent("rate_limited", Children),
                                    TreeEvent("warning", Children)>>,
                           [tree_call EXCEPT !.retried = TRUE])
        \/ TreeRaises(req, IF tree_call.retried THEN 0 ELSE 1)
        \/ IF direct
           THEN TreeReturn(req \o <<TreeEvent("info", Children)>>,
                           [k \in 1..Len(kids) |-> Node(kids[k], <<>>)], "direct")
           ELSE TreeStep(req \o <<TreeEvent("info", Children)>>,
                         [tree_call EXCEPT !.pc = "loop", !.kids = kids, !.i = 1,
                                           !.sub = <<>>, !.retried = FALSE])

\* lines 275-281, a child that reports no child: its list is empty
TreeLeaf ==
  /\ tree_call.pc = "loop" /\ tree_call.i <= Len(tree_call.kids)
  /\ LET c == tree_call.kids[tree_call.i] IN
     /\ numchild(Remote, c) = 0
     /\ TreeStep(<<>>, [tree_call EXCEPT !.sub = Append(@, Node(c, <<>>)), !.i = @ + 1])

\* lines 275-279, a child that reports children: fetch_document_tree is
\* called for it, and the loop waits
TreeRecurse ==
  /\ tree_call.pc = "loop" /\ tree_call.i <= Len(tree_call.kids)
  /\ Len(tree_call.frames) < MaxDepth
  /\ LET c == tree_call.kids[tree_call.i] IN
     /\ numchild(Remote, c) > 0
     /\ TreeStep(<<>>, [NewTreeCall(c) EXCEPT
                          !.frames = Append(tree_call.frames,
                                            [doc |-> tree_call.doc, kids |-> tree_call.kids,
                                             i |-> tree_call.i, sub |-> tree_call.sub])])

\* line 283
TreeLoopEnd ==
  /\ tree_call.pc = "loop" /\ tree_call.i > Len(tree_call.kids)
  /\ TreeReturn(<<>>, tree_call.sub, "fallback")

NextResolve ==
  \/ BulkQuery
  \/ DescendantsPage
  \/ DescendantsRetry
  \/ TreeDetails
  \/ TreeChildren
  \/ TreeLeaf
  \/ TreeRecurse
  \/ TreeLoopEnd

SpecResolve == InitResolve /\ [][NextResolve]_vars

(***************************************************************************)
(* Properties                                                              *)
(***************************************************************************)
EventIdx == 1..Len(events)
IsWrite(ev) == ev.op = "write"
IsMeta(ev) == ev.op = "write" /\ ev.name = MetadataJson
Nodes == {0} \cup Entries

\* the log line of the call of entry e: its folder, its title and metadata
Routed(e) == \E i \in EventIdx : events[i].op = "route" /\ events[i].e = e
RouteOf(e) == events[CHOOSE i \in EventIdx : events[i].op = "route" /\ events[i].e = e]

\* the metadata extracted for the node of entry e mark it draft
MarkedDraft(e) == Routed(e) /\ is_draft(RouteOf(e).data.fm)

\* C1: a node whose extracted metadata mark it draft gets no directory and
\* no index.md / index.html / metadata.json
C1_DraftNodeNotPersisted ==
  \A i \in EventIdx :
    IsWrite(events[i]) => ~MarkedDraft(events[i].e) /\ events[i].dir \notin
                              {RouteOf(e).dir : e \in {x \in Nodes : MarkedDraft(x)}}

\* C2: process_document does not recurse into the children of a draft node:
\* no active call has a draft node as its caller
C2_NoRecursionIntoDraft ==
  \A k \in 1..(Len(stack) - 1) : ~is_draft(stack[k].fm)

\* the values of DraftValues that are 'true', 'yes' or 'oui' once trimmed and
\* case-folded
TruthyInputs == {V_true, V_yes, V_oui, V_OUI_sp, V_sp_True, V_Yes}

\* C3: is_draft(metadata) is true exactly when the map has a 'draft' or a
\* 'brouillon' key whose trimmed, case-folded value is 'true', 'yes' or 'oui'
C3_IsDraftExactlyOnTruthy ==
  (call.fn = "is_draft" /\ call.res # <<>>) =>
    (call.res[1] <=> \E k \in {K_draft, K_brouillon} :
                       k \in DOMAIN call.arg /\ call.arg[k] \in TruthyInputs)

C3_Witness ==
  /\ call.fn = "is_draft" /\ call.res = <<TRUE>>
  /\ DOMAIN call.arg = {K_brouillon} /\ call.arg[K_brouillon] = V_OUI_sp

\* C4: within one traversal every document is content-fetched at most once
\* per format and every file of it is written at most once; a call for an
\* identifier already in processed_ids fetches and writes nothing
C4_ProcessedAtMostOnce ==
  \A i, j \in EventIdx :
    (i < j /\ events[i].doc = events[j].doc /\ events[i].op = events[j].op
           /\ events[i].name = events[j].name)
    => events[i].op \notin {"fetch_html", "fetch_markdown", "fetch_html_failed",
                            "fetch_md_failed", "write", "route"}

\* the node that lists entry e (-1: nobody lists the root of the traversal)
ListedBy(e) == IF e = 0 THEN -1 ELSE parentOf[e]

\* a document was persisted once and skipped where another node lists it
C4_Witness ==
  /\ phase = "done"
  /\ \E i, j \in EventIdx :
       /\ i < j /\ IsMeta(events[i]) /\ events[j].op = "skip"
       /\ events[i].doc = events[j].doc
       /\ ListedBy(events[i].e) # ListedBy(events[j].e)

\* a document listed twice in one children list was persisted once
C4_WitnessTwice ==
  /\ phase = "done"
  /\ \E i, j \in EventIdx :
       /\ i < j /\ IsMeta(events[i]) /\ events[j].op = "skip"
       /\ events[i].doc = events[j].doc
       /\ ListedBy(events[i].e) = ListedBy(events[j].e)

\* the loop over the children of node e was entered
LoopEntered(e) ==
  /\ \E i \in EventIdx : IsMeta(events[i]) /\ events[i].e = e
  /\ e = 0 => \E i \in EventIdx : events[i].op = "resolve" /\ events[i].e = 0

C6_FetchFailureWritesNothing ==
  \A i \in EventIdx :
    events[i].op \in {"fetch_html_failed", "fetch_md_failed"} =>
      \A j \in EventIdx :
        /\ events[j].e = events[i].e => events[j].op \notin {"write", "download", "route"}
        /\ events[j].e # 0 => parentOf[events[j].e] # events[i].e

\* the HTML was fetched, the Markdown failed, and the node has children
C6_Witness ==
  /\ phase = "done"
  /\ \E i, j \in EventIdx :
       /\ i < j /\ events[i].op = "fetch_html" /\ events[j].op = "fetch_md_failed"
       /\ events[i].e = events[j].e
       /\ \E c \in Entries : parentOf[c] = events[i].e

\* C7: every metadata.json holds 'title' (the title of the API) and 'order'
\* (the order passed to the call), whatever the frontmatter says, and none of
\* 'path', 'logo_file', 'edit_url'
C7_MetadataKeys ==
  \A i \in EventIdx : IsMeta(events[i]) =>
    LET m == events[i].data IN
    /\ K_title \in DOMAIN m /\ K_order \in DOMAIN m
    /\ ApiTitle(events[i].doc) # <<>> => m[K_title] = ApiTitle(events[i].doc)
    /\ m[K_order] = Str(events[i].order)
    /\ DOMAIN m \cap {K_path, K_logo_file, K_edit_url} = {}

\* the frontmatter of the node set 'title', 'order', 'path' and 'logo_file'
C7_Witness ==
  \E i \in EventIdx :
    /\ IsMeta(events[i])
    /\ {K_title, K_order, K_path, K_logo_file} \subseteq DOMAIN RouteOf(events[i].e).data.fm

\* the position, from 0, of entry e in the children list that holds it
PositionOf(e) == Cardinality({c \in Entries : parentOf[c] = parentOf[e] /\ c < e})

\* C8: the 'order' of a node persisted as a child is its position, from 0, in
\* the children list of its parent; the root of the traversal has order 0
C8_OrderIsPosition ==
  \A i \in EventIdx : IsMeta(events[i]) =>
    events[i].data[K_order] = Str(IF events[i].e = 0 THEN 0 ELSE PositionOf(events[i].e))

\* a node was persisted after a sibling that failed
C8_Witness ==
  \E i, j \in EventIdx :
    /\ i < j /\ events[i].op = "error" /\ IsMeta(events[j])
    /\ events[i].e # 0 /\ events[j].e # 0
    /\ parentOf[events[i].e] = parentOf[events[j].e]
    /\ events[j].data[K_order] = Str(PositionOf(events[i].e) + 1)

\* the siblings listed before e that are not marked draft
RetainedBefore(e) ==
  {c \in Entries : parentOf[c] = parentOf[e] /\ c < e /\ ~MarkedDraft(c)}

\* C9: the output holds only non-draft nodes, and the 'order' of a
\* persisted node is its position among its non-draft siblings
C9_OnlyNonDraftCompactOrder ==
  \A i \in EventIdx : IsMeta(events[i]) =>
    /\ ~MarkedDraft(events[i].e)
    /\ events[i].e # 0 =>
         events[i].data[K_order] = Str(Cardinality(RetainedBefore(events[i].e)))

\* the directory of the parent of entry e
ParentDirOf(e) == IF e = 0 THEN <<>> ELSE RouteOf(parentOf[e]).dir

HtmlMeta(d) ==
  LET x == extract_frontmatter(HtmlContent(d)) IN
  IF K_image \notin DOMAIN x.fm /\ x.body # <<>> /\ x.body[1].t = "img"
  THEN Put(x.fm, K_image, x.body[1].u) ELSE x.fm

\* the frontmatter and the body of the Markdown answer for document d
MdMeta(d) == extract_frontmatter_markdown(MdContent(d)).fm
MdBody(d) == extract_frontmatter_markdown(MdContent(d)).body
HtmlBody(d) == extract_frontmatter(HtmlContent(d)).body

\* the keys process_document computes or strips itself
ComputedKeys == {K_title, K_order, K_path, K_logo_file, K_edit_url}

\* C11: when both formats are fetched the merged metadata are the HTML
\* frontmatter (with the derived 'image') overlaid by the Markdown
\* frontmatter: a key of both has the Markdown value, a key of one only is
\* kept, and that is what metadata.json stores for the keys it keeps
C11_MarkdownWins ==
  \A i \in EventIdx :
    LET H == HtmlMeta(events[i].doc)
        M == MdMeta(events[i].doc)
    IN /\ (events[i].op = "route" /\ EffectiveFormat = "both") =>
            /\ DOMAIN events[i].data.fm = DOMAIN H \cup DOMAIN M
            /\ \A k \in DOMAIN M : events[i].data.fm[k] = M[k]
            /\ \A k \in DOMAIN H \ DOMAIN M : events[i].data.fm[k] = H[k]
       /\ (IsMeta(events[i]) /\ EffectiveFormat = "both") =>
            /\ \A k \in DOMAIN M \ ComputedKeys : events[i].data[k] = M[k]
            /\ \A k \in DOMAIN H \ (DOMAIN M \cup ComputedKeys) : events[i].data[k] = H[k]

\* a persisted node whose two formats disagree on 'path' and on the 'image'
\* derived from the <img>, with keys found in one format only
C11_Witness ==
  \E i \in EventIdx :
    LET H == HtmlMeta(events[i].doc)
        M == MdMeta(events[i].doc)
    IN /\ IsMeta(events[i]) /\ EffectiveFormat = "both"
       /\ {K_path, K_image} \subseteq DOMAIN H \cap DOMAIN M
       /\ H[K_path] # M[K_path] /\ H[K_image] # M[K_image]
       /\ K_image \notin DOMAIN extract_frontmatter(HtmlContent(events[i].doc)).fm
       /\ DOMAIN H \ DOMAIN M # {} /\ DOMAIN M \ DOMAIN H # {}
       /\ events[i].data[K_image] = M[K_image]

\* node e was persisted: its metadata.json was written
Persisted(e) == \E i \in EventIdx : IsMeta(events[i]) /\ events[i].e = e
HasFile(e, name) == \E i \in EventIdx : IsWrite(events[i]) /\ events[i].e = e /\ events[i].name = name
DocOf(e) == IF e = 0 THEN root ELSE eid[e]
NoHtmlAtAll ==
  \A i \in EventIdx : /\ events[i].op \notin {"fetch_html", "fetch_html_failed"}
                       /\ ~(IsWrite(events[i]) /\ events[i].name = IndexHtml)
NoMdAtAll ==
  \A i \in EventIdx : /\ events[i].op \notin {"fetch_markdown", "fetch_md_failed"}
                       /\ ~(IsWrite(events[i]) /\ events[i].name = IndexMd)
EveryMdWritten == \A e \in Nodes : (Persisted(e) /\ MdBody(DocOf(e)) # <<>>) => HasFile(e, IndexMd)
EveryHtmlWritten == \A e \in Nodes : (Persisted(e) /\ HtmlBody(DocOf(e)) # <<>>) => HasFile(e, IndexHtml)

\* C12: with the zensical backend no HTML is fetched or written whatever
\* format was requested and every persisted node with a Markdown body has
\* index.md; without a backend 'html' gives index.html only, 'markdown'
\* index.md only and 'both' both
C12_BackendForcesMarkdown ==
  /\ backend = "zensical" => NoHtmlAtAll /\ EveryMdWritten
  /\ (backend = "none" /\ selected_format = "html") => NoMdAtAll /\ EveryHtmlWritten
  /\ (backend = "none" /\ selected_format = "markdown") => NoHtmlAtAll /\ EveryMdWritten
  /\ (backend = "none" /\ selected_format = "both") => EveryMdWritten /\ EveryHtmlWritten

\* 'html' was requested with the zensical backend and a child was persisted
C12_Witness ==
  /\ backend = "zensical" /\ selected_format = "html" /\ phase = "done"
  /\ \E e \in Entries : Persisted(e) /\ HasFile(e, IndexMd)

(***************************************************************************)
(* Assets, references and extractors                                       *)
(***************************************************************************)
Returned(fn) == call.fn = fn /\ call.res # <<>>

\* C13: download_and_replace_images rewrites a remote reference to the
\* bare file name exactly when a file name can be derived from the URL, the
\* download answers 200 and the file is written; any other reference is
\* returned as it was, and the function returns whatever happens
C13_RewriteIffDownloaded ==
  Returned("download_and_replace_images") =>
    /\ Len(call.res[1].body) = Len(call.arg.body)
    /\ \A i \in 1..Len(call.arg.body) :
         LET t == call.arg.body[i] IN
         IF /\ t.t = "img" /\ IsRemote(t.u) /\ AssetFilename(t.u) # <<>>
            /\ call.arg.outcome[i] = "ok"
         THEN call.res[1].body[i] = Img(AssetFilename(t.u)) /\ call.res[1].body[i] # t
         ELSE call.res[1].body[i] = t

\* one reference was localised, the next one, to the same URL, failed
C13_Witness ==
  /\ Returned("download_and_replace_images")
  /\ Len(call.arg.body) = 2
  /\ call.arg.body[1] = Img(AssetUrl) /\ call.arg.body[2] = Img(AssetUrl)
  /\ call.arg.outcome[1] = "ok" /\ call.arg.outcome[2] \in Outcomes \ {"ok"}
  /\ call.res[1].body = <<Img(AssetFilename(AssetUrl)), Img(AssetUrl)>>

NoRepeat(seq) == \A i, j \in 1..Len(seq) : i # j => seq[i] # seq[j]

\* C14: while one document is processed each distinct remote URL is
\* requested once and its file is written once
C14_EachUrlOnce ==
  Returned("localize_assets") =>
    NoRepeat(call.res[1].asked) /\ NoRepeat(call.res[1].written)

\* a text of 36 lowercase hexadecimal digits and hyphens
Bare36(url) == Len(url) = 36 /\ \A i \in 1..36 : url[i] \in HexChars

\* C15: parse_docs_url returns (scheme://host, id) when the path holds
\* /docs/<id>, the default base and the text itself for a bare text of 36
\* lowercase hexadecimal digits and hyphens, and raises ValueError for any
\* other text
C15_ParseDocsUrl ==
  Returned("parse_docs_url") =>
    LET url == call.arg
        r   == call.res[1]
    IN IF DocsHits(UrlPath(url)) # {}
       THEN r.ok /\ r.base = UrlScheme(url) \o <<":","/","/">> \o UrlNetloc(url)
                 /\ r.id # <<>> /\ "/" \notin RangeOf(r.id)
       ELSE IF Bare36(url) THEN r.ok /\ r.base = DefaultBase /\ r.id = url
       ELSE ~r.ok

\* C19: when the body does not start with a delimited block, both
\* extractors return no metadata and the body as it was given
C19_NoBlockIsIdentity ==
  /\ (Returned("extract_frontmatter") /\ ~HtmlHasBlock(call.arg)) =>
       call.res[1] = [fm |-> EmptyMap, body |-> call.arg]
  /\ (Returned("extract_frontmatter_markdown") /\ ~MdHasBlock(call.arg)) =>
       call.res[1] = [fm |-> EmptyMap, body |-> call.arg]

\* C30: slugify never returns the empty string, whatever the title is, so
\* that the directory of a node is never the directory of its parent
C30_SlugNeverEmpty ==
  Returned("slugify") =>
    /\ call.res[1] # <<>>
    /\ \A parent \in {<<>>, <<SansTitreSlug>>} : Join(parent, call.res[1]) # parent

(***************************************************************************)
(* Logging                                                                 *)
(***************************************************************************)
\* the failures that an except clause catches
CaughtOps == {"bulk_failed", "page_failed", "fetch_html_failed", "fetch_md_failed",
              "write_failed", "resolve_failed"}
LogOps == {"error", "warning"}

\* C20: every caught failure is followed by a log entry before anything
\* else is done
C20_EveryCaughtErrorLogged ==
  \A i \in EventIdx : events[i].op \in CaughtOps =>
    i < Len(events) /\ events[i + 1].op \in LogOps

(***************************************************************************)
(* main()                                                                  *)
(***************************************************************************)
\* what main() did with its references, in order
MainLog == SelectSeq(events, LAMBDA ev : ev.op \in {"process_document", "parse_error"})

\* what main() does with reference number k
Handled(k) ==
  LET r == parse_docs_url(main.urls[k]) IN
  IF r.ok THEN MainEvent("process_document", r.id, k - 1)
  ELSE MainEvent("parse_error", main.urls[k], k - 1)

\* C16: a reference that cannot be parsed is reported and skipped, and
\* every other reference, before and after it, is given to
\* process_document, in the order of the list
C16_BadReferenceSkipped ==
  (main.pc \in {"loop", "exit"} /\ ~main.deploy) =>
    /\ Len(MainLog) = main.i - 1
    /\ \A k \in 1..Len(MainLog) : MainLog[k] = Handled(k)
    /\ main.pc = "exit" => main.i = Len(main.urls) + 1

\* a reference that cannot be parsed stood between two that were processed
C16_Witness ==
  /\ main.pc = "exit" /\ Len(MainLog) = 3
  /\ MainLog[1].op = "process_document" /\ MainLog[2].op = "parse_error"
  /\ MainLog[3].op = "process_document"
  /\ \E i \in EventIdx : IsMeta(events[i]) /\ events[i].order = 2

DownloadOps == {"process_document", "rmtree", "fetch_html", "fetch_markdown", "write",
                "download", "route", "resolve"}
DeployOps == {"deploy", "deploy_unsupported"}

C17_WitnessDownload ==
  /\ ~main.deploy /\ main.pc = "exit"
  /\ \E i, j \in EventIdx : i < j /\ events[i].op = "rmtree" /\ IsMeta(events[j])

\* C18: an existing zensical.toml is left as it is by every call of
\* process_document, and 'zensical new' is not run while the file exists
C18_ExistingTomlUntouched ==
  [][toml.state # "absent" =>
       /\ toml' = toml
       /\ \A i \in 1..Len(events') : i > Len(events) => events'[i].op # "zensical_new"]_vars

\* the backend was set up for two roots over a file edited by hand
C18_Witness ==
  /\ toml = TomlEdited /\ backend = "zensical" /\ main.pc = "exit"
  /\ Cardinality({i \in EventIdx : events[i].op = "setup_backend"}) >= 2

(***************************************************************************)
(* The processed set over a run of main()                                  *)
(***************************************************************************)
\* the document of event i is asked for, or its metadata.json is written
FetchesOrPersists(i) ==
  \/ events[i].op \in {"fetch_html", "fetch_markdown"}
  \/ IsMeta(events[i])

\* C23: in one run of main() with several references, no document is
\* fetched twice in one format and none has its metadata.json written twice
C23_OncePerRun ==
  \A i, j \in EventIdx :
    (i < j /\ FetchesOrPersists(i) /\ events[i].doc = events[j].doc
           /\ events[i].op = events[j].op /\ events[i].name = events[j].name) => FALSE

(***************************************************************************)
(* Index files and metadata.json                                           *)
(***************************************************************************)
\* the call of process_document for entry e is over
Ended(e) == Routed(e) /\ \A k \in 1..Len(stack) : stack[k].entry # e

\* C28: when a call of process_document is over, however it ended, a node
\* directory that got an index.md or an index.html also got the
\* metadata.json of the node
C28_IndexImpliesMetadata ==
  \A e \in Nodes :
    (Ended(e) /\ (HasFile(e, IndexMd) \/ HasFile(e, IndexHtml))) =>
      /\ Persisted(e)
      /\ <<RouteOf(e).dir, MetadataJson>> \in DOMAIN fs

(***************************************************************************)
(* The order of the traversal                                              *)
(***************************************************************************)
\* entry e is entry a or is below it
InSubtree(a, e) == e # 0 /\ IsAbove(parentOf, a, e)

OnStack(e) == \E k \in 1..Len(stack) : stack[k].entry = e

\* something of entry e has happened or is happening
Started(e) == OnStack(e) \/ \E i \in EventIdx : events[i].e = e

\* C29: the traversal is synchronous, pre-order and depth-first.  The
\* active calls are a chain from the root; the index files and the
\* metadata.json of a node are written before anything of a child is asked;
\* of two children of a node, everything of the subtree of the first
\* happens, and its calls are over, before the second is started; only the
\* traversal root resolves the tree
C29_PreOrderDepthFirst ==
  /\ \A k \in 1..Len(stack) :
       IF k = 1 THEN stack[k].entry = 0 ELSE parentOf[stack[k].entry] = stack[k - 1].entry
  /\ \A c \in Entries : (Started(c) /\ \E i \in EventIdx : events[i].e = c /\ events[i].op # "skip") =>
       \E j \in EventIdx :
         /\ IsMeta(events[j]) /\ events[j].e = parentOf[c]
         /\ \A i \in EventIdx : events[i].e = c => j < i
         /\ \A i \in EventIdx : (IsWrite(events[i]) /\ events[i].e = parentOf[c]) => i <= j
  /\ \A a, b \in Entries : (a < b /\ parentOf[a] = parentOf[b] /\ Started(b)) =>
       /\ \A e \in Entries : InSubtree(a, e) => ~OnStack(e)
       /\ \A i, j \in EventIdx :
            (InSubtree(a, events[i].e) /\ InSubtree(b, events[j].e)) => i < j
  /\ \A i \in EventIdx : events[i].op \in {"resolve", "resolve_failed"} => events[i].e = 0

\* two children of the root were processed one after the other, each with
\* its files, by a traversal that is over
C29_Witness ==
  /\ phase = "done" /\ parentOf[1] = 0 /\ parentOf[2] = 0 /\ eid[1] # eid[2]
  /\ Persisted(0) /\ Persisted(1) /\ Persisted(2)
  /\ \E i \in EventIdx : events[i].op = "resolve"

\* a child processed under a child: the chain of calls is three deep
C29_WitnessNested ==
  /\ phase = "done" /\ parentOf[2] = 1
  /\ Persisted(0) /\ Persisted(1) /\ Persisted(2)

(***************************************************************************)
(* The tree resolver                                                       *)
(***************************************************************************)
\* C21: at every call site a 429 is followed by one more request for the
\* same address, and that request is not retried again
C21_RateLimitRetriedOnce ==
  \A i \in EventIdx : events[i].op = "rate_limited" =>
    IF \E j \in EventIdx : j > i /\ events[j].op = "request"
    THEN LET j == CHOOSE j \in EventIdx :
                    /\ j > i /\ events[j].op = "request"
                    /\ \A k \in EventIdx : (i < k /\ k < j) => events[k].op # "request"
         IN /\ events[j].name = events[i].name
            /\ events[j].doc = events[i].doc
            /\ events[j].order = events[i].order
            /\ j < Len(events) => events[j + 1].op # "rate_limited"
    ELSE tree_call.retried

\* the documents whose calls of fetch_document_tree are active, outermost first
ActiveDocs == [k \in 1..Len(tree_call.frames) |-> tree_call.frames[k].doc] \o <<tree_call.doc>>

RECURSIVE RemoteTree(_, _)
RemoteTree(r, d) ==
  LET cs == SelectSeq(IdSeq, LAMBDA c : r.up[c] = d)
  IN [k \in 1..Len(cs) |-> Node(cs[k], RemoteTree(r, cs[k]))]

\* the listing of the children agrees with the paths
Consistent(r) == \A d \in Ids : r.kids[d] = SelectSeq(IdSeq, LAMBDA c : r.up[c] = d)

\* C24: when a bulk query gave results and nothing failed, the tree
\* returned puts every descendant once under the document whose path is its
\* own without the last part, the children of the root first, in the order
\* of the results
C24_BulkTreeFollowsPaths ==
  (Returned("fetch_document_tree") /\ call.res[1].via = "bulk" /\ fails = 0) =>
    call.res[1].tree = RemoteTree(Remote, tree_call.doc)

\* C25: when no bulk route gave anything for the root and nothing failed,
\* the tree built by the recursive method is the tree the paths give
C25_FallbackTreeIsRemoteTree ==
  (Returned("fetch_document_tree") /\ call.res[1].via = "fallback" /\ fails = 0
     /\ Consistent(Remote)) =>
    call.res[1].tree = RemoteTree(Remote, tree_call.doc)

LastEvent == events[Len(events)]

\* C26: fetch_document_descendants does not raise; from the paginated
\* listing it returns None after a 404 on the first page, after an
\* exception and for an empty listing, and otherwise every page of the
\* listing, in order
C26_DescendantsListing ==
  /\ call.fn = "fetch_document_descendants" => tree_call.pc # "raised"
  /\ (tree_call.pc = "returned" /\ LastEvent.name = Descendants) =>
       /\ tree_call.ret \in {"None", "results"}
       /\ (LastEvent.op = "not_found" /\ tree_call.page = 1) => tree_call.ret = "None"
       /\ LastEvent.op = "warning" => tree_call.ret = "None"
       /\ LastEvent.op = "request" =>
            tree_call.ret = "None" /\ Listing(Remote, tree_call.doc) = <<>>
       /\ LastEvent.op = "info" =>
            /\ tree_call.ret = "results"
            /\ tree_call.results = Listing(Remote, tree_call.doc)

\* a listing of two entries came in two pages
C26_Witness ==
  /\ call.fn = "fetch_document_descendants"
  /\ tree_call.pc = "returned" /\ tree_call.ret = "results"
  /\ LastEvent.op = "info" /\ LastEvent.name = Descendants
  /\ tree_call.page = 2 /\ Len(tree_call.results) = 2

\* None was returned for a 404 on the first page
C26_WitnessNotFound ==
  /\ call.fn = "fetch_document_descendants"
  /\ tree_call.pc = "returned" /\ tree_call.ret = "None"
  /\ LastEvent.op = "not_found" /\ fails = 0

\* the documents of a tree
RECURSIVE TreeIds(_)
TreeIds(t) == UNION {{t[k].id} \cup TreeIds(t[k].children) : k \in 1..Len(t)}

\* C27: when nothing failed, every document below the root is in the tree
\* process_document walks, whichever branch the resolver took
C27_EveryDescendantResolved ==
  (Returned("fetch_document_tree") /\ call.res[1].ok /\ fails = 0 /\ Consistent(Remote)) =>
    \A x \in RangeOf(Listing(Remote, tree_call.doc)) : x \in TreeIds(call.res[1].tree)
====
